---- MODULE Spec2Model ----
(***************************************************************************)
(* A model of SimpleSearchClient (src/src/SimpleSearchClient.ts): the      *)
(* error normalizer, the URL builder, the transport with its request       *)
(* configuration, the query engine with its pagination fixup and the batch *)
(* document writer.                                                        *)
(*                                                                         *)
(* JavaScript values are tagged records, so that the truthiness tests, the *)
(* property reads and the string conversions of the source are computed    *)
(* as the language computes them.                                          *)
(***************************************************************************)
EXTENDS Naturals, Sequences, FiniteSets

VARIABLES client, norm, built, calls, qry, batch

vars == <<client, norm, built, calls, qry, batch>>

----------------------------------------------------------------------------
(* JavaScript values *)

Undefined == [t |-> "undefined"]
Null == [t |-> "null"]
Str(s) == [t |-> "string", s |-> s]
Num(n) == [t |-> "number", n |-> n]
Bool(b) == [t |-> "boolean", b |-> b]
\* An object of class cls ("Object", "Error", "TypeError") with own properties f.
Obj(cls, f) == [t |-> "object", cls |-> cls, f |-> f]

NoProps == [k \in {} |-> Undefined]
Prop(k, v) == [x \in {k} |-> v]
Props2(k1, v1, k2, v2) == [x \in {k1, k2} |-> IF x = k1 THEN v1 ELSE v2]
\* f with property k assigned v (added when absent, overwritten when present).
SetProp(f, k, v) == [x \in (DOMAIN f) \cup {k} |-> IF x = k THEN v ELSE f[x]]

\* ToBoolean: undefined, null, "", 0 and false are falsy, all else truthy.
Truthy(v) ==
    CASE v.t = "undefined" -> FALSE
      [] v.t = "null" -> FALSE
      [] v.t = "string" -> v.s # ""
      [] v.t = "number" -> v.n # 0
      [] v.t = "boolean" -> v.b
      [] OTHER -> TRUE

\* Reading a property of undefined or null throws a TypeError.
CanRead(v) == v.t \notin {"undefined", "null"}

\* v[k] for a readable v: own property of an object, undefined otherwise
\* (the primitives of this model have none of the properties the client reads).
Get(v, k) ==
    IF v.t = "object" /\ k \in DOMAIN v.f THEN v.f[k] ELSE Undefined

\* a && b and a || b, with b read only when a decides nothing.
AndThen(a, k) == IF Truthy(a) THEN Get(a, k) ELSE a
OrElse(a, b) == IF Truthy(a) THEN a ELSE b

Digit(d) == SubSeq("0123456789", d + 1, d + 1)

RECURSIVE NumToString(_)
NumToString(n) == IF n < 10 THEN Digit(n) ELSE NumToString(n \div 10) \o Digit(n % 10)

\* String(v), as a template literal converts its holes. An Error converts by
\* Error.prototype.toString: its name, then ": " and its message when it has one.
RECURSIVE ToString(_)
ToString(v) ==
    CASE v.t = "undefined" -> "undefined"
      [] v.t = "null" -> "null"
      [] v.t = "string" -> v.s
      [] v.t = "number" -> NumToString(v.n)
      [] v.t = "boolean" -> (IF v.b THEN "true" ELSE "false")
      [] v.t = "object" /\ v.cls \in {"Error", "TypeError"} ->
            LET m == Get(v, "message")
                msg == IF m.t = "undefined" THEN "" ELSE ToString(m)
            IN  IF msg = "" THEN v.cls ELSE v.cls \o ": " \o msg
      [] OTHER -> "[object Object]"

\* new Error(message): the message is converted to a string unless undefined.
NewError(message) ==
    Obj("Error", IF message.t = "undefined" THEN Prop("message", Str(""))
                 ELSE Prop("message", Str(ToString(message))))

\* The two ways a function ends.
Return(v) == [kind |-> "return", value |-> v]
Throw(v) == [kind |-> "throw", value |-> v]
TypeErrorValue == Obj("TypeError", Prop("message", Str("Cannot read property of undefined")))

----------------------------------------------------------------------------
(* Error Normalizer *)

\* extractErrorMessage with the structured body never consulted.
extractErrorMessageNoEnvelope(error) ==
    IF ~CanRead(error) THEN Throw(TypeErrorValue)
    ELSE Return(Str("Error: " \o ToString(OrElse(Get(error, "message"), error))))

\* The && chain is the value returned when it is truthy; the template literal
\* is returned otherwise.
extractErrorMessage(error) ==
    IF ~CanRead(error) THEN Throw(TypeErrorValue)
    ELSE Return(OrElse(
            AndThen(AndThen(AndThen(Get(error, "response"), "data"), "error"), "message"),
            Str("Error: " \o ToString(OrElse(Get(error, "message"), error)))))

\* The failure values the normalizer is handed.
ServiceMessages ==
    {Null, Str(""), Str("boom"), Num(0), Num(42), Obj("Object", Prop("code", Str("E1")))}

ErrorEnvelopes ==
    {Null, Str("bad request"), Obj("Object", NoProps)}
        \cup {Obj("Object", Prop("message", m)) : m \in ServiceMessages}

ResponseBodies ==
    {Undefined, Null, Str(""), Str("<html>502</html>"), Obj("Object", NoProps)}
        \cup {Obj("Object", Prop("error", e)) : e \in ErrorEnvelopes}

Responses ==
    {Null, Obj("Object", NoProps)} \cup {Obj("Object", Prop("data", d)) : d \in ResponseBodies}

OwnMessages == {"", "net down", "Request failed with status code 412"}

\* What a transport rejects with: an Error with or without a response.
TransportErrors ==
    {Obj("Error", Prop("message", Str(m))) : m \in OwnMessages}
        \cup {Obj("Error", Props2("message", Str(m), "response", r)) :
                  m \in OwnMessages, r \in Responses}

Failures ==
    {Undefined, Null, Str(""), Str("timeout"), Num(0), Obj("Object", NoProps)}
        \cup TransportErrors

IdleNorm == [pc |-> "idle"]
IdleBuilt == [pc |-> "idle"]
IdleQry == [pc |-> "idle"]
IdleBatch == [pc |-> "idle"]
NoClient == [serviceName |-> "", apikey |-> "", cloudSuffix |-> Undefined, userAgent |-> ""]

InitErr ==
    /\ client = NoClient
    /\ \E e \in Failures : norm = [pc |-> "handed", error |-> e]
    /\ built = IdleBuilt
    /\ calls = <<>>
    /\ qry = IdleQry
    /\ batch = IdleBatch

Normalize ==
    /\ norm.pc = "handed"
    /\ norm' = [pc |-> "done", error |-> norm.error, out |-> extractErrorMessage(norm.error)]
    /\ UNCHANGED <<client, built, calls, qry, batch>>

NextErr == Normalize

SpecErr == InitErr /\ [][NextErr]_vars

----------------------------------------------------------------------------
(* URL Builder *)

API_VERSION == "2019-05-06"
DefaultSuffix == "search.windows.net"

\* makeUrl with the separator inserted before every fragment.
makeUrlAlwaysSeparates(c, path, options) ==
    LET suffix == OrElse(c.cloudSuffix, Str(DefaultSuffix))
    IN  "https://" \o c.serviceName \o "." \o suffix.s \o "/" \o path
            \o "?api-version=" \o API_VERSION \o "&" \o options

makeUrl(c, path, options) ==
    LET suffix == OrElse(c.cloudSuffix, Str(DefaultSuffix))
        opts == IF options # "" /\ SubSeq(options, 1, 1) # "&" THEN "&" \o options
                ELSE options
    IN  "https://" \o c.serviceName \o "." \o suffix.s \o "/" \o path
            \o "?api-version=" \o API_VERSION \o opts

MaxFragLen == 3
FragChars == {"&", "q", "="}

RECURSIVE Fragments(_)
Fragments(n) ==
    IF n = 0 THEN {""}
    ELSE LET shorter == Fragments(n - 1)
         IN  shorter \cup {s \o ch : s \in shorter, ch \in FragChars}

Paths == {"indexes", "indexes/hotels/docs", "indexers/nightly"}
ServiceNames == {"contoso", "s2"}
CloudSuffixes == {Undefined, Str(""), Str("search.azure.us")}
UserAgent == "vscode-azurecognitivesearch"

\* The constructor: the configuration is fixed for the life of the client.
NewClient(serviceName, apikey, cloudSuffix) ==
    [serviceName |-> serviceName, apikey |-> apikey, cloudSuffix |-> cloudSuffix,
     userAgent |-> UserAgent]

Clients == {NewClient(n, "KEY-1", x) : n \in ServiceNames, x \in CloudSuffixes}

InitUrl ==
    /\ client \in Clients
    /\ norm = IdleNorm
    /\ \E p \in Paths, o \in Fragments(MaxFragLen) :
            built = [pc |-> "asked", path |-> p, options |-> o]
    /\ calls = <<>>
    /\ qry = IdleQry
    /\ batch = IdleBatch

BuildUrl ==
    /\ built.pc = "asked"
    /\ built' = [pc |-> "built", path |-> built.path, options |-> built.options,
                 url |-> makeUrl(client, built.path, built.options)]
    /\ UNCHANGED <<client, norm, calls, qry, batch>>

NextUrl == BuildUrl

SpecUrl == InitUrl /\ [][NextUrl]_vars

----------------------------------------------------------------------------
(* Transport *)

Arr(a) == [t |-> "array", a |-> a]

\* How the transport's promise stands: not yet settled, fulfilled with a
\* response, or rejected with a failure value.
Pending == [state |-> "pending"]
Fulfilled(data, headers) ==
    [state |-> "fulfilled", response |-> [data |-> data, headers |-> headers]]
Rejected(error) == [state |-> "rejected", error |-> error]

Await == [kind |-> "await"]

makeRequestConfig(c) ==
    [headers |-> Props2("api-key", c.apikey, "User-Agent", c.userAgent)]

\* The try/catch around each awaited transport call: the response, or a new
\* Error carrying only the normalized message.
\* throw new Error(m), m the normalizer's result (its own throw passes through).
ThrowNew(m) == IF m.kind = "throw" THEN m ELSE Throw(NewError(m.value))

Caught(settled) ==
    CASE settled.state = "pending" -> Await
      [] settled.state = "fulfilled" -> Return(settled.response)
      [] OTHER -> ThrowNew(extractErrorMessage(settled.error))

\* An operation after its awaited call h: it ends as given when h delivered a
\* response, and as h did (still awaiting, or thrown) otherwise.
Then(h, ended) ==
    [requests |-> h.requests,
     outcome |-> IF h.outcome.kind = "return" THEN ended ELSE h.outcome]

\* Each operation is given how its transport call settled and yields the
\* requests it has issued and how it ended (Await while the call is pending).
\* httpGetUrl sending the request again when it failed.
httpGetUrlRetries(c, url, settled) ==
    LET request == [method |-> "GET", url |-> url,
                    headers |-> makeRequestConfig(c).headers, data |-> Undefined]
    IN  [requests |-> IF settled.state = "rejected" THEN <<request, request>>
                      ELSE <<request>>,
         outcome |-> Caught(settled)]

httpGetUrl(c, url, settled) ==
    [requests |-> <<[method |-> "GET", url |-> url,
                     headers |-> makeRequestConfig(c).headers, data |-> Undefined]>>,
     outcome |-> Caught(settled)]

httpGet(c, path, queryString, settled) ==
    httpGetUrl(c, makeUrl(c, path, queryString), settled)

httpPost(c, path, data, settled) ==
    [requests |-> <<[method |-> "POST", url |-> makeUrl(c, path, ""),
                     headers |-> makeRequestConfig(c).headers, data |-> data]>>,
     outcome |-> Caught(settled)]

\* httpPut attaching whatever token it was passed, the empty one included.
httpPutAnyEtag(c, path, data, etag, settled) ==
    LET config == makeRequestConfig(c)
        headers == IF etag # Undefined THEN SetProp(config.headers, "if-match", etag.s)
                   ELSE config.headers
    IN  [requests |-> <<[method |-> "PUT", url |-> makeUrl(c, path, ""),
                         headers |-> headers, data |-> data]>>,
         outcome |-> Caught(settled)]

httpPut(c, path, data, etag, settled) ==
    LET config == makeRequestConfig(c)
        headers == IF Truthy(etag) THEN SetProp(config.headers, "if-match", etag.s)
                   ELSE config.headers
    IN  [requests |-> <<[method |-> "PUT", url |-> makeUrl(c, path, ""),
                         headers |-> headers, data |-> data]>>,
         outcome |-> Caught(settled)]

----------------------------------------------------------------------------
(* Batch Document Writer *)

ProtocolViolation == "Unexpected response from service while attempting to process document"

\* The response check deciding on the first entry whenever there is one.
checkBatchResponseFirstEntry(batchResponse) ==
    LET value == Get(batchResponse, "value")
    IN  IF Len(value.a) < 1
        THEN Throw(NewError(Str(ProtocolViolation)))
        ELSE IF ~Truthy(Get(value.a[1], "status"))
        THEN Throw(NewError(Str("Failed to process document: "
                                    \o ToString(Get(value.a[1], "errorMessage")))))
        ELSE Return(Undefined)

\* The response check reporting the item's status code in place of its message.
checkBatchResponseStatusCode(batchResponse) ==
    LET value == Get(batchResponse, "value")
    IN  IF Len(value.a) # 1
        THEN Throw(NewError(Str(ProtocolViolation)))
        ELSE IF ~Truthy(Get(value.a[1], "status"))
        THEN Throw(NewError(Str("Failed to process document: "
                                    \o ToString(Get(value.a[1], "statusCode")))))
        ELSE Return(Undefined)

\* The two checks indexBatch makes of a response the transport delivered.
checkBatchResponse(batchResponse) ==
    LET value == Get(batchResponse, "value")
    IN  IF Len(value.a) # 1
        THEN Throw(NewError(Str(ProtocolViolation)))
        ELSE IF ~Truthy(Get(value.a[1], "status"))
        THEN Throw(NewError(Str("Failed to process document: "
                                    \o ToString(Get(value.a[1], "errorMessage")))))
        ELSE Return(Undefined)

\* throw new Error(`Failed to process document: ${m}`), m the normalizer's result.
ThrowFailedToProcess(m) ==
    IF m.kind = "throw" THEN m
    ELSE Throw(NewError(Str("Failed to process document: " \o ToString(m.value))))

\* indexBatch from its await on: the catch of a failed POST, then the checks.
indexBatchAfterPost(h) ==
    [requests |-> h.requests,
     outcome |->
        CASE h.outcome.kind = "await" -> Await
          [] h.outcome.kind = "throw" ->
                ThrowFailedToProcess(extractErrorMessage(h.outcome.value))
          [] OTHER -> checkBatchResponse(h.outcome.value.data)]

\* indexBatch without its try/catch: a transport failure passes through as thrown.
indexBatchUncaughtAfterPost(h) == Then(h, checkBatchResponse(h.outcome.value.data))

indexBatchUncaught(c, indexName, body, settled) ==
    indexBatchUncaughtAfterPost(
        httpPost(c, "indexes/" \o indexName \o "/docs/index", body, settled))

indexBatch(c, indexName, body, settled) ==
    indexBatchAfterPost(httpPost(c, "indexes/" \o indexName \o "/docs/index", body, settled))

BatchOf(entry) == Obj("Object", Prop("value", Arr(<<Obj("Object", entry)>>)))

uploadDocument(c, indexName, doc, createNew, settled) ==
    LET shallowCopy == doc.f
        stamped == SetProp(shallowCopy, "@search.action",
                           Str(IF Truthy(createNew) THEN "mergeOrUpload" ELSE "merge"))
    IN  indexBatch(c, indexName, BatchOf(stamped), settled)

deleteDocument(c, indexName, keyName, key, settled) ==
    LET deletion == SetProp(SetProp(NoProps, "@search.action", Str("delete")),
                            keyName, key)
    IN  indexBatch(c, indexName, BatchOf(deletion), settled)

\* The caller's inputs.
Docs ==
    {Obj("Object", Props2("id", Str("1"), "title", Str("x"))),
     Obj("Object", Prop("id", Str("2"))),
     Obj("Object", Props2("id", Str("3"), "@search.action", Str("delete"))),
     Obj("Object", NoProps)}
KeyNames == {"id", "hotelId", "@search.action"}
KeyValues == {Str("1"), Num(7)}
IndexNames == {"hotels"}

\* What the service answers a batch with.
BatchEntry(key, status, errorMessage, statusCode) ==
    Obj("Object", [x \in {"key", "status", "errorMessage", "statusCode"} |->
        CASE x = "key" -> key
          [] x = "status" -> Bool(status)
          [] x = "errorMessage" -> errorMessage
          [] OTHER -> Num(statusCode)])

BatchEntries ==
    {BatchEntry(Str("1"), TRUE, Null, 200),
     BatchEntry(Str("1"), FALSE, Str("version conflict"), 409),
     BatchEntry(Str("1"), FALSE, Str("Document key is invalid"), 400)}

MaxEntries == 2

EntryLists == UNION {[1..n -> BatchEntries] : n \in 0..MaxEntries}

NoHeaders == [k \in {} |-> ""]

\* Three ways the service or the network fails a request.
WireFailures ==
    {Obj("Error", Prop("message", Str("net down"))),
     Obj("Error", Props2("message", Str("Request failed with status code 412"),
         "response", Obj("Object", Prop("data", Obj("Object", Prop("error",
             Obj("Object", Prop("message", Str("boom"))))))))),
     Obj("Error", Props2("message", Str("Request failed with status code 502"),
         "response", Obj("Object", Prop("data", Str("<html>502</html>")))))}

BatchSettlements ==
    {Fulfilled(Obj("Object", Prop("value", Arr(es))), NoHeaders) : es \in EntryLists}
        \cup {Rejected(e) : e \in WireFailures}

DefaultClients == {NewClient("contoso", "KEY-1", Undefined)}

InitBatch ==
    /\ client \in DefaultClients
    /\ norm = IdleNorm
    /\ built = IdleBuilt
    /\ calls = <<>>
    /\ qry = IdleQry
    /\ batch = IdleBatch

AsBatchCall(pc, op, indexName, doc, createNew, keyName, key, settled, r) ==
    [pc |-> pc, op |-> op, indexName |-> indexName, doc |-> doc, createNew |-> createNew,
     keyName |-> keyName, key |-> key, settled |-> settled,
     requests |-> r.requests, outcome |-> r.outcome]

\* A call runs to its await: the request is on the wire.
UploadDocument ==
    /\ batch.pc \in {"idle", "done"}
    /\ \E i \in IndexNames, d \in Docs, n \in {Bool(TRUE), Bool(FALSE)} :
            batch' = AsBatchCall("awaiting", "uploadDocument", i, d, n, "", Undefined,
                                 Pending, uploadDocument(client, i, d, n, Pending))
    /\ UNCHANGED <<client, norm, built, calls, qry>>

DeleteDocument ==
    /\ batch.pc \in {"idle", "done"}
    /\ \E i \in IndexNames, k \in KeyNames, v \in KeyValues :
            batch' = AsBatchCall("awaiting", "deleteDocument", i, Undefined, Undefined,
                                 k, v, Pending, deleteDocument(client, i, k, v, Pending))
    /\ UNCHANGED <<client, norm, built, calls, qry>>

\* The transport call settles and the call runs from its await to its end.
SettleBatch ==
    /\ batch.pc = "awaiting"
    /\ \E s \in BatchSettlements :
            batch' = AsBatchCall("done", batch.op, batch.indexName, batch.doc,
                         batch.createNew, batch.keyName, batch.key, s,
                         IF batch.op = "uploadDocument"
                         THEN uploadDocument(client, batch.indexName, batch.doc,
                                             batch.createNew, s)
                         ELSE deleteDocument(client, batch.indexName, batch.keyName,
                                             batch.key, s))
    /\ UNCHANGED <<client, norm, built, calls, qry>>

NextBatch == UploadDocument \/ DeleteDocument \/ SettleBatch

SpecBatch == InitBatch /\ [][NextBatch]_vars

----------------------------------------------------------------------------
(* Query Engine *)

fixupQueryResponse(response) ==
    Obj(response.cls,
        SetProp(SetProp(response.f, "nextLink", Get(response, "@odata.nextLink")),
                "nextPageParameteres", Get(response, "@search.nextPageParameters")))

\* query and queryNext from the await on, r the awaited call.
queryAfterGet(r, raw) ==
    Then(r, Return(IF ~Truthy(raw) THEN fixupQueryResponse(r.outcome.value.data)
                   ELSE r.outcome.value.data))

queryNextAfterGet(r) == Then(r, Return(fixupQueryResponse(r.outcome.value.data)))

\* query applying the fixup whatever raw is.
queryIgnoresRaw(c, indexName, q, raw, settled) ==
    queryNextAfterGet(httpGet(c, "indexes/" \o indexName \o "/docs", q, settled))

query(c, indexName, q, raw, settled) ==
    queryAfterGet(httpGet(c, "indexes/" \o indexName \o "/docs", q, settled), raw)

queryNext(c, nextLink, settled) == queryNextAfterGet(httpGetUrl(c, nextLink, settled))

\* The service's continuation link: absolute, with the version in it.
ContinuationLink ==
    "https://contoso.search.windows.net/indexes/hotels/docs?api-version=2019-05-06&search=*&$skip=50"

\* A query response body: the documents, and each optional field only when given.
QueryBody(value, link, params, own) ==
    Obj("Object",
        [k \in {"value"}
               \cup (IF link = Undefined THEN {} ELSE {"@odata.nextLink"})
               \cup (IF params = Undefined THEN {} ELSE {"@search.nextPageParameters"})
               \cup (IF own = Undefined THEN {} ELSE {"nextLink"}) |->
            CASE k = "value" -> value
              [] k = "@odata.nextLink" -> link
              [] k = "@search.nextPageParameters" -> params
              [] OTHER -> own])

QueryBodies ==
    {QueryBody(v, l, p, o) :
        v \in {Arr(<<>>), Arr(<<Obj("Object", Prop("id", Str("1")))>>)},
        l \in {Undefined, Str(ContinuationLink)},
        p \in {Undefined, Obj("Object", Prop("skip", Num(50)))},
        o \in {Undefined, Str("stale")}}

QuerySettlements ==
    {Fulfilled(b, NoHeaders) : b \in QueryBodies} \cup {Rejected(e) : e \in WireFailures}

QueryStrings == {"", "search=*"}
\* raw as the caller passes it: omitted, true or false.
RawFlags == {Undefined, Bool(TRUE), Bool(FALSE)}
MaxPages == 2

InitQuery ==
    /\ client \in DefaultClients
    /\ norm = IdleNorm
    /\ built = IdleBuilt
    /\ calls = <<>>
    /\ qry = IdleQry
    /\ batch = IdleBatch

AsQueryCall(pc, op, indexName, q, raw, nextLink, page, settled, r) ==
    [pc |-> pc, op |-> op, indexName |-> indexName, query |-> q, raw |-> raw,
     nextLink |-> nextLink, page |-> page, settled |-> settled,
     requests |-> r.requests, outcome |-> r.outcome]

Query ==
    /\ qry.pc \in {"idle", "done"}
    /\ \E i \in IndexNames, q \in QueryStrings, raw \in RawFlags :
            qry' = AsQueryCall("awaiting", "query", i, q, raw, "", 1, Pending,
                               query(client, i, q, raw, Pending))
    /\ UNCHANGED <<client, norm, built, calls, batch>>

\* Pagination is driven by the caller: it hands back the link of the page it got.
QueryNext ==
    /\ qry.pc = "done"
    /\ qry.outcome.kind = "return"
    /\ qry.page < MaxPages
    /\ \E link \in {Get(qry.outcome.value, "nextLink"),
                     Get(qry.outcome.value, "@odata.nextLink")} :
            /\ Truthy(link)
            /\ qry' = AsQueryCall("awaiting", "queryNext", "", "", Undefined, link.s,
                                  qry.page + 1, Pending,
                                  queryNext(client, link.s, Pending))
    /\ UNCHANGED <<client, norm, built, calls, batch>>

SettleQuery ==
    /\ qry.pc = "awaiting"
    /\ \E s \in QuerySettlements :
            qry' = AsQueryCall("done", qry.op, qry.indexName, qry.query, qry.raw,
                       qry.nextLink, qry.page, s,
                       IF qry.op = "query"
                       THEN query(client, qry.indexName, qry.query, qry.raw, s)
                       ELSE queryNext(client, qry.nextLink, s))
    /\ UNCHANGED <<client, norm, built, calls, batch>>

NextQuery == Query \/ QueryNext \/ SettleQuery

SpecQuery == InitQuery /\ [][NextQuery]_vars

----------------------------------------------------------------------------
(* Resource Accessors and document lookup *)

\* encodeURIComponent on the characters of this model: the reserved ones are
\* percent-encoded, every other one here is unreserved and kept.
EncodeChar(ch) ==
    CASE ch = " " -> "%20"
      [] ch = "/" -> "%2F"
      [] ch = "&" -> "%26"
      [] ch = "=" -> "%3D"
      [] ch = "?" -> "%3F"
      [] ch = "#" -> "%23"
      [] ch = "%" -> "%25"
      [] ch = "+" -> "%2B"
      [] OTHER -> ch

RECURSIVE encodeURIComponent(_)
encodeURIComponent(str) ==
    IF str = "" THEN ""
    ELSE EncodeChar(SubSeq(str, 1, 1)) \o encodeURIComponent(SubSeq(str, 2, Len(str)))

\* r.data.value.map(i => i.name)
Names(value) == Arr([i \in 1..Len(value.a) |-> Get(value.a[i], "name")])

\* Each accessor from its await on, r the awaited call.
listIndexesAfterGet(r) == Then(r, Return(Get(r.outcome.value.data, "value")))

listNamesAfterGet(r) == Then(r, Return(Names(Get(r.outcome.value.data, "value"))))

getResourceAfterGet(r) ==
    Then(r, Return(Obj("Object", Props2(
                "content", r.outcome.value.data,
                "etag", IF "etag" \in DOMAIN r.outcome.value.headers
                        THEN Str(r.outcome.value.headers["etag"])
                        ELSE Undefined))))

lookupAfterGet(r) == Then(r, Return(r.outcome.value.data))

listIndexes(c, settled) ==
    listIndexesAfterGet(httpGet(c, "indexes", "$select=name,fields", settled))

listDataSources(c, settled) ==
    listNamesAfterGet(httpGet(c, "datasources", "$select=name", settled))

listIndexers(c, settled) ==
    listNamesAfterGet(httpGet(c, "indexers", "$select=name", settled))

getResource(c, resource, name, settled) ==
    getResourceAfterGet(httpGet(c, resource \o "/" \o name, "", settled))

updateResource(c, resource, name, content, etag, settled) ==
    httpPut(c, resource \o "/" \o name, content, etag, settled)

lookup(c, indexName, key, settled) ==
    lookupAfterGet(httpGet(c, "indexes/" \o indexName \o "/docs/"
                                  \o encodeURIComponent(key), "", settled))

----------------------------------------------------------------------------
(* The client in use: calls made one after another or overlapping *)

MaxCalls == 2

Etags == {Undefined, Str(""), Str("W/1"), Str("W/2")}
IndexDefinition == Obj("Object", Props2("name", Str("hotels"), "fields", Arr(<<>>)))
NamedItems == Arr(<<Obj("Object", Prop("name", Str("a"))),
                    Obj("Object", Prop("name", Str("b")))>>)
Collection == Obj("Object", Prop("value", NamedItems))
HotelDoc == Obj("Object", Props2("id", Str("1"), "title", Str("x")))

\* The arguments a call was made with (only those its operation takes are read).
NoArgs ==
    [resource |-> "", name |-> "", content |-> Undefined, etag |-> Undefined,
     indexName |-> "", query |-> "", raw |-> Undefined, nextLink |-> "",
     key |-> Undefined, doc |-> Undefined, createNew |-> Undefined, keyName |-> ""]

\* The operation op of the client, called with a and settled as given.
Run(op, a, settled) ==
    CASE op = "listIndexes" -> listIndexes(client, settled)
      [] op = "listDataSources" -> listDataSources(client, settled)
      [] op = "listIndexers" -> listIndexers(client, settled)
      [] op = "getResource" -> getResource(client, a.resource, a.name, settled)
      [] op = "updateResource" ->
            updateResource(client, a.resource, a.name, a.content, a.etag, settled)
      [] op = "query" -> query(client, a.indexName, a.query, a.raw, settled)
      [] op = "queryNext" -> queryNext(client, a.nextLink, settled)
      [] op = "lookup" -> lookup(client, a.indexName, a.key.s, settled)
      [] op = "uploadDocument" ->
            uploadDocument(client, a.indexName, a.doc, a.createNew, settled)
      [] OTHER -> deleteDocument(client, a.indexName, a.keyName, a.key, settled)

\* What the service may answer each operation with, besides failing it.
Answers(op) ==
    CASE op = "listIndexes" ->
            {Fulfilled(Obj("Object", Prop("value", Arr(<<IndexDefinition>>))), NoHeaders)}
      [] op \in {"listDataSources", "listIndexers"} -> {Fulfilled(Collection, NoHeaders)}
      [] op = "getResource" ->
            {Fulfilled(IndexDefinition, [k \in {"etag"} |-> "W/1"])}
      [] op = "updateResource" -> {Fulfilled(Str(""), NoHeaders)}
      [] op \in {"query", "queryNext"} ->
            {Fulfilled(QueryBody(Arr(<<HotelDoc>>), l, Undefined, Undefined), NoHeaders) :
                l \in {Undefined, Str(ContinuationLink)}}
      [] op = "lookup" -> {Fulfilled(HotelDoc, NoHeaders)}
      [] OTHER ->
            {Fulfilled(Obj("Object", Prop("value", Arr(<<e>>))), NoHeaders) :
                e \in {BatchEntry(Str("1"), TRUE, Null, 200),
                       BatchEntry(Str("1"), FALSE, Str("version conflict"), 409)}}

\* A stale token or a lost connection fails the request.
CallFailures ==
    {Obj("Error", Props2("message", Str("Request failed with status code 412"),
         "response", Obj("Object", Prop("data", Obj("Object", Prop("error",
             Obj("Object", Prop("message", Str("boom")))))))))}

Init ==
    /\ client \in DefaultClients
    /\ norm = IdleNorm
    /\ built = IdleBuilt
    /\ calls = <<>>
    /\ qry = IdleQry
    /\ batch = IdleBatch

\* A call of op run to its await: its request is on the wire.
AsCall(op, a, settled, r) ==
    [op |-> op, args |-> a, settled |-> settled,
     requests |-> r.requests, outcome |-> r.outcome]

Started(op, a) == AsCall(op, a, Pending, Run(op, a, Pending))

CallListIndexes ==
    /\ Len(calls) < MaxCalls
    /\ calls' = Append(calls, Started("listIndexes", NoArgs))
    /\ UNCHANGED <<client, norm, built, qry, batch>>

CallListDataSources ==
    /\ Len(calls) < MaxCalls
    /\ calls' = Append(calls, Started("listDataSources", NoArgs))
    /\ UNCHANGED <<client, norm, built, qry, batch>>

CallListIndexers ==
    /\ Len(calls) < MaxCalls
    /\ calls' = Append(calls, Started("listIndexers", NoArgs))
    /\ UNCHANGED <<client, norm, built, qry, batch>>

CallGetResource ==
    /\ Len(calls) < MaxCalls
    /\ calls' = Append(calls, Started("getResource",
                     [NoArgs EXCEPT !.resource = "indexes", !.name = "hotels"]))
    /\ UNCHANGED <<client, norm, built, qry, batch>>

CallUpdateResource ==
    /\ Len(calls) < MaxCalls
    /\ \E etag \in Etags :
           calls' = Append(calls, Started("updateResource",
                        [NoArgs EXCEPT !.resource = "indexes", !.name = "hotels",
                                       !.content = IndexDefinition, !.etag = etag]))
    /\ UNCHANGED <<client, norm, built, qry, batch>>

CallQuery ==
    /\ Len(calls) < MaxCalls
    /\ \E raw \in {Bool(TRUE), Bool(FALSE)} :
           calls' = Append(calls, Started("query",
                        [NoArgs EXCEPT !.indexName = "hotels", !.query = "search=*",
                                       !.raw = raw]))
    /\ UNCHANGED <<client, norm, built, qry, batch>>

CallQueryNext ==
    /\ Len(calls) < MaxCalls
    /\ calls' = Append(calls, Started("queryNext",
                     [NoArgs EXCEPT !.nextLink = ContinuationLink]))
    /\ UNCHANGED <<client, norm, built, qry, batch>>

CallLookup ==
    /\ Len(calls) < MaxCalls
    /\ calls' = Append(calls, Started("lookup",
                     [NoArgs EXCEPT !.indexName = "hotels", !.key = Str("a/b 1")]))
    /\ UNCHANGED <<client, norm, built, qry, batch>>

CallUploadDocument ==
    /\ Len(calls) < MaxCalls
    /\ calls' = Append(calls, Started("uploadDocument",
                     [NoArgs EXCEPT !.indexName = "hotels", !.doc = HotelDoc,
                                    !.createNew = Bool(TRUE)]))
    /\ UNCHANGED <<client, norm, built, qry, batch>>

CallDeleteDocument ==
    /\ Len(calls) < MaxCalls
    /\ calls' = Append(calls, Started("deleteDocument",
                     [NoArgs EXCEPT !.indexName = "hotels", !.keyName = "id",
                                    !.key = Str("1")]))
    /\ UNCHANGED <<client, norm, built, qry, batch>>

\* The transport call of some awaiting call settles, in any order among the
\* calls in flight, and that call runs from its await to its end.
Settle ==
    \E i \in 1..Len(calls) :
        /\ calls[i].settled = Pending
        /\ \E s \in Answers(calls[i].op) \cup {Rejected(e) : e \in CallFailures} :
               calls' = [calls EXCEPT ![i] =
                            AsCall(@.op, @.args, s, Run(@.op, @.args, s))]
        /\ UNCHANGED <<client, norm, built, qry, batch>>

Next ==
    \/ CallListIndexes
    \/ CallListDataSources
    \/ CallListIndexers
    \/ CallGetResource
    \/ CallUpdateResource
    \/ CallQuery
    \/ CallQueryNext
    \/ CallLookup
    \/ CallUploadDocument
    \/ CallDeleteDocument
    \/ Settle

Spec == Init /\ [][Next]_vars

----------------------------------------------------------------------------
(* Claims about the Error Normalizer *)

\* The message found by walking response.data.error.message (undefined when any
\* step is missing or is not an object).
NestedMessage(error) ==
    Get(Get(Get(Get(error, "response"), "data"), "error"), "message")

HasNestedMessageField(error) ==
    LET e == Get(Get(Get(error, "response"), "data"), "error")
    IN  e.t = "object" /\ "message" \in DOMAIN e.f

\* "Error: " and the failure's own message, or the stringified failure without one.
Fallback(error) ==
    LET own == Get(error, "message")
    IN  Str("Error: " \o (IF Truthy(own) THEN ToString(own) ELSE ToString(error)))

\* C4: the Error Normalizer never raises and always returns a string, for every
\* failure value it is handed, malformed and absent (null/undefined) ones included.
C4_NeverRaisesReturnsString ==
    norm.pc = "done" => norm.out.kind = "return" /\ norm.out.value.t = "string"

----------------------------------------------------------------------------
(* Claims about the URL Builder *)

UrlBase(suffix) ==
    "https://" \o client.serviceName \o "." \o suffix \o "/" \o built.path
        \o "?api-version=2019-05-06"

\* What follows the api-version parameter in the built URL.
UrlTail(suffix) ==
    SubSeq(built.url, Len(UrlBase(suffix)) + 1, Len(built.url))

RECURSIVE Count(_, _)
Count(s, ch) ==
    IF s = "" THEN 0
    ELSE (IF SubSeq(s, 1, 1) = ch THEN 1 ELSE 0) + Count(SubSeq(s, 2, Len(s)), ch)

\* The fragment is joined with exactly one separator: unchanged when it starts
\* with "&", one "&" inserted when it does not, nothing at all when it is empty.
JoinedOnce(suffix) ==
    /\ Len(built.url) >= Len(UrlBase(suffix))
    /\ SubSeq(built.url, 1, Len(UrlBase(suffix))) = UrlBase(suffix)
    /\ built.options = "" => UrlTail(suffix) = ""
    /\ built.options # "" /\ SubSeq(built.options, 1, 1) = "&"
           => UrlTail(suffix) = built.options
    /\ built.options # "" /\ SubSeq(built.options, 1, 1) # "&"
           => /\ UrlTail(suffix) = "&" \o built.options
              /\ Count(UrlTail(suffix), "&") = Count(built.options, "&") + 1

\* C6 as stated: the URL is https://{serviceName}.{suffix}/{path}?api-version=...
\* with the fragment joined by exactly one '&', where the suffix is the caller's
\* cloud suffix whenever one was supplied and the default otherwise.
C6_SuffixWheneverSupplied ==
    built.pc = "built" =>
        JoinedOnce(IF client.cloudSuffix # Undefined THEN client.cloudSuffix.s
                   ELSE "search.windows.net")

\* C6 amended: the same, where the suffix is the caller's cloud suffix when one was
\* supplied and is not the empty string, and the default public suffix otherwise.
C6_SuffixWhenNonEmpty ==
    built.pc = "built" =>
        JoinedOnce(IF client.cloudSuffix # Undefined /\ client.cloudSuffix # Str("")
                   THEN client.cloudSuffix.s
                   ELSE "search.windows.net")

\* A fragment that does not start with "&" was joined to a sovereign-cloud URL.
C6_Witness ==
    /\ built.pc = "built"
    /\ client.cloudSuffix = Str("search.azure.us")
    /\ built.options = "q=&"
    /\ built.url = "https://contoso.search.azure.us/indexes?api-version=2019-05-06&q=&"

----------------------------------------------------------------------------
(* Claims about the Batch Document Writer *)

BatchFulfilled == batch.pc = "done" /\ batch.settled.state = "fulfilled"
ResponseEntries == batch.settled.response.data.f.value.a
ThrownError(message) == Throw(Obj("Error", Prop("message", Str(message))))
StartsWith(s, prefix) == Len(s) >= Len(prefix) /\ SubSeq(s, 1, Len(prefix)) = prefix

\* C1: when the POST succeeds and the response holds zero or two or more
\* entries, the call throws the protocol-violation error, whatever the entries'
\* status values are.
C1_WrongEntryCountThrows ==
    BatchFulfilled /\ Len(ResponseEntries) # 1 =>
        batch.outcome = ThrownError(
            "Unexpected response from service while attempting to process document")

\* A response of two entries, the first of them successful, was refused.
C1_Witness ==
    /\ BatchFulfilled
    /\ Len(ResponseEntries) = 2
    /\ ResponseEntries[1].f.status = Bool(TRUE)
    /\ batch.outcome.kind = "throw"

\* C2: when the POST succeeds and the response holds exactly one entry whose
\* status is false, the call throws an error whose message is the prefix
\* "Failed to process document:", a space, and the entry's errorMessage verbatim.
C2_ItemRejectedMessage ==
    BatchFulfilled /\ Len(ResponseEntries) = 1
                   /\ ResponseEntries[1].f.status = Bool(FALSE) =>
        /\ batch.outcome.kind = "throw"
        /\ batch.outcome.value.cls = "Error"
        /\ LET msg == batch.outcome.value.f.message.s
                em == ResponseEntries[1].f.errorMessage.s
           IN  /\ StartsWith(msg, "Failed to process document:")
               /\ msg = "Failed to process document: " \o em

\* A rejected item's "version conflict" reached the caller.
C2_Witness ==
    /\ BatchFulfilled
    /\ Len(ResponseEntries) = 1
    /\ ResponseEntries[1].f.status = Bool(FALSE)
    /\ batch.outcome = ThrownError("Failed to process document: version conflict")

\* The one of the four terminal outcomes a settled transport call leads to.
BatchCase ==
    IF batch.settled.state = "rejected" THEN "TransportFailure"
    ELSE IF Len(ResponseEntries) # 1 THEN "WrongEntryCount"
    ELSE IF ResponseEntries[1].f.status # Bool(TRUE) THEN "ItemRejected"
    ELSE "Success"

\* C3: a submission waits in Submitted with its one request sent and ends in
\* the outcome decided in the order transport failure, wrong entry count, item
\* rejected, success: a transport failure throws an error prefixed with
\* "Failed to process document: ", and the call returns normally if and only if
\* the POST succeeded with exactly one entry whose status is true.
C3_BatchStateMachine ==
    /\ batch.pc = "awaiting" => batch.outcome = Await /\ batch.settled = Pending
    /\ batch.pc = "done" =>
          /\ batch.outcome.kind \in {"return", "throw"}
          /\ BatchCase = "TransportFailure" =>
                /\ batch.outcome.kind = "throw"
                /\ batch.outcome.value.cls = "Error"
                /\ StartsWith(batch.outcome.value.f.message.s,
                              "Failed to process document: ")
          /\ BatchCase = "WrongEntryCount" =>
                batch.outcome = ThrownError(ProtocolViolation)
          /\ BatchCase = "ItemRejected" =>
                /\ batch.outcome.kind = "throw"
                /\ batch.outcome.value.f.message.s # ProtocolViolation
          /\ batch.outcome = Return(Undefined) <=> BatchCase = "Success"
          /\ batch.outcome.kind = "return" <=>
                /\ batch.settled.state = "fulfilled"
                /\ Len(ResponseEntries) = 1
                /\ ResponseEntries[1].f.status = Bool(TRUE)

\* A network failure ended a submission with the prefixed message.
C3_Witness ==
    /\ batch.pc = "done"
    /\ batch.settled = Rejected(Obj("Error", Prop("message", Str("net down"))))
    /\ batch.outcome =
          ThrownError("Failed to process document: Error: Error: net down")

\* The single action entry of the batch body on the wire.
SentEntry == batch.requests[1].data.f.value.a[1].f

OneEntryBatch ==
    /\ Len(batch.requests) = 1
    /\ batch.requests[1].method = "POST"
    /\ DOMAIN batch.requests[1].data.f = {"value"}
    /\ Len(batch.requests[1].data.f.value.a) = 1

UploadEntryAsClaimed ==
    LET action == Str(IF batch.createNew = Bool(TRUE) THEN "mergeOrUpload" ELSE "merge")
    IN  /\ DOMAIN SentEntry = (DOMAIN batch.doc.f) \cup {"@search.action"}
        /\ SentEntry["@search.action"] = action
        /\ \A k \in (DOMAIN batch.doc.f) \ {"@search.action"} :
               SentEntry[k] = batch.doc.f[k]

DeleteEntryAsClaimed ==
    /\ DOMAIN SentEntry = {"@search.action", batch.keyName}
    /\ SentEntry["@search.action"] = Str("delete")
    /\ SentEntry[batch.keyName] = batch.key

\* C8: every batch body POSTed holds exactly one action entry: for
\* uploadDocument the caller's fields plus "@search.action" set to
\* "mergeOrUpload" or "merge"; for deleteDocument only "@search.action" set to
\* "delete" and the field keyName set to keyValue, for every keyName.
C8_OneActionEntry ==
    batch.pc \in {"awaiting", "done"} =>
        /\ OneEntryBatch
        /\ batch.op = "uploadDocument" => UploadEntryAsClaimed
        /\ batch.op = "deleteDocument" => DeleteEntryAsClaimed

\* The same for every keyName other than "@search.action" itself.
C8_OtherKeyNames ==
    batch.pc \in {"awaiting", "done"} /\ batch.keyName # "@search.action" =>
        /\ OneEntryBatch
        /\ batch.op = "uploadDocument" => UploadEntryAsClaimed
        /\ batch.op = "deleteDocument" => DeleteEntryAsClaimed

----------------------------------------------------------------------------
(* Claims about the Query Engine *)

QueryAnswered == qry.pc = "done" /\ qry.settled.state = "fulfilled"
ServiceBody == qry.settled.response.data

\* C7: the fixup is applied exactly when the call is queryNext or query with raw
\* false (or omitted): the returned response then has nextLink equal to the
\* vendor field "@odata.nextLink" and its continuation-parameters field equal to
\* "@search.nextPageParameters" (undefined when the vendor field is absent) and
\* is otherwise the body; query with raw true returns the body unmodified.
C7_FixupExactlyWhenNotRaw ==
    QueryAnswered =>
        /\ qry.outcome.kind = "return"
        /\ LET out == qry.outcome.value
           IN  IF qry.op = "queryNext" \/ qry.raw # Bool(TRUE)
               THEN /\ DOMAIN out.f =
                          (DOMAIN ServiceBody.f) \cup {"nextLink", "nextPageParameteres"}
                    /\ out.f.nextLink = Get(ServiceBody, "@odata.nextLink")
                    /\ out.f.nextPageParameteres
                          = Get(ServiceBody, "@search.nextPageParameters")
                    /\ \A k \in (DOMAIN ServiceBody.f)
                                   \ {"nextLink", "nextPageParameteres"} :
                          out.f[k] = ServiceBody.f[k]
               ELSE out = ServiceBody

\* A continuation page came back with its link normalized from the vendor field.
C7_Witness ==
    /\ QueryAnswered
    /\ qry.op = "queryNext"
    /\ "nextLink" \notin DOMAIN ServiceBody.f
    /\ "@search.nextPageParameters" \notin DOMAIN ServiceBody.f
    /\ qry.outcome.value.f.nextLink = Str(ContinuationLink)
    /\ qry.outcome.value.f.nextPageParameteres = Undefined

----------------------------------------------------------------------------
(* Claims about the Transport *)

CallIds == 1..Len(calls)

RequestsOf(i) == {calls[i].requests[k] : k \in 1..Len(calls[i].requests)}

CarriesIdentity(r) ==
    /\ {"api-key", "User-Agent"} \subseteq DOMAIN r.headers
    /\ DOMAIN r.headers \subseteq {"api-key", "User-Agent", "if-match"}
    /\ r.headers["api-key"] = client.apikey
    /\ r.headers["User-Agent"] = client.userAgent

\* C9 as stated: over any interleaving of calls every request carries the
\* api-key and product-identifier headers, and carries if-match if and only if it
\* is the put of an updateResource that was given a concurrency token, with that
\* token as its value.
C9_IfMatchWheneverGiven ==
    \A i \in CallIds : \A r \in RequestsOf(i) :
        /\ CarriesIdentity(r)
        /\ "if-match" \in DOMAIN r.headers <=>
              /\ calls[i].op = "updateResource"
              /\ r.method = "PUT"
              /\ calls[i].args.etag # Undefined
        /\ "if-match" \in DOMAIN r.headers => r.headers["if-match"] = calls[i].args.etag.s

\* C9 amended: the same, with if-match carried if and only if the request is the
\* put of an updateResource that was given a non-empty concurrency token; a put
\* given the empty string as its token carries no if-match header.
C9_IfMatchWhenNonEmpty ==
    \A i \in CallIds : \A r \in RequestsOf(i) :
        /\ CarriesIdentity(r)
        /\ "if-match" \in DOMAIN r.headers <=>
              /\ calls[i].op = "updateResource"
              /\ r.method = "PUT"
              /\ calls[i].args.etag \notin {Undefined, Str("")}
        /\ "if-match" \in DOMAIN r.headers => r.headers["if-match"] = calls[i].args.etag.s

\* Two puts with different tokens and both in flight: each carries its own.
C9_Witness ==
    /\ Len(calls) = 2
    /\ calls[1].op = "updateResource" /\ calls[1].args.etag = Str("W/1")
    /\ calls[2].op = "updateResource" /\ calls[2].args.etag = Str("W/2")
    /\ calls[1].settled = Pending /\ calls[2].settled = Pending
    /\ calls[1].requests[1].headers["if-match"] = "W/1"
    /\ calls[2].requests[1].headers["if-match"] = "W/2"

\* A call has issued exactly one request; it awaits until the transport settles
\* and has then ended, by a throw when the request failed.
OneRequestThenEnd(i) ==
    /\ Len(calls[i].requests) = 1
    /\ calls[i].settled = Pending <=> calls[i].outcome = Await
    /\ calls[i].settled # Pending => calls[i].outcome.kind \in {"return", "throw"}
    /\ calls[i].settled.state = "rejected" =>
          /\ calls[i].outcome.kind = "throw"
          /\ calls[i].outcome.value.cls = "Error"

\* C10: every public operation issues exactly one HTTP request per call and then
\* terminates: a failed request is never retried and is thrown to the caller (a
\* stale-token updateResource included), a nextLink in a query response triggers
\* no further request, and a call that has ended does nothing more.
C10_OneRequestNoRetry ==
    /\ [](\A i \in CallIds : OneRequestThenEnd(i))
    /\ [][\A i \in CallIds : calls[i].settled # Pending => calls'[i] = calls[i]]_vars

\* A stale-token update was thrown and a query answered with a nextLink rested.
C10_Witness ==
    /\ Len(calls) = 2
    /\ calls[1].op = "updateResource" /\ calls[1].args.etag = Str("W/1")
    /\ calls[1].settled.state = "rejected"
    /\ calls[1].outcome = ThrownError("boom")
    /\ calls[2].op = "query"
    /\ calls[2].settled.state = "fulfilled"
    /\ Truthy(Get(calls[2].outcome.value, "nextLink"))
    /\ Len(calls[1].requests) = 1 /\ Len(calls[2].requests) = 1

====
